---- MODULE Spec2Model ----
(***************************************************************************)
(* Cohort retention analysis, RFM segmentation and the CSV helpers of the  *)
(* supercoop data analysis package (src/analysis/cohort.py,                *)
(* src/analysis/rfm.py, src/data/utils.py).                                *)
(*                                                                         *)
(* A table is a sequence of rows (records).  Dates are day numbers; day 0  *)
(* is Monday 2018-01-01 and every date lies in 2018.  A missing value      *)
(* (NaN / None) is a record with na = TRUE.  Fractions are kept exact as   *)
(* num/den pairs.                                                          *)
(***************************************************************************)
EXTENDS Integers, Sequences, FiniteSets, TLC

VARIABLES df_orders, df_members, df_products, today, pc, call, ret,
          plot_args, processed, figures

vars == <<df_orders, df_members, df_products, today, pc, call, ret,
          plot_args, processed, figures>>

----------------------------------------------------------------------------
(* Bounds of the model                                                      *)

MaxRows == 4

(* member IDs of ordinary members, sample delivery dates, sample values    *)
Customers == {1, 2}
Dates == {1, 36, 200}
Values == {1, 2}

----------------------------------------------------------------------------
(* Calendar: what to_period / to_timestamp / timedelta division compute    *)

CompanyAccount == 46

DaysPerWeek == 7

SecondsPerDay == 86400

(* np.timedelta64(1, 'M') as pandas converts it: 30 days 10:29:06          *)
SecondsPerMonth == 2629746

(* first day of each month of 2018 *)
MonthStarts == <<0, 31, 59, 90, 120, 151, 181, 212, 243, 273, 304, 334>>

MaxOf(S) == CHOOSE x \in S : \A y \in S : y <= x

MinOf(S) == CHOOSE x \in S : \A y \in S : x <= y

(* ordinal of the month (0..11) holding day d *)
MonthOf(d) == MaxOf({i \in 1..Len(MonthStarts) : MonthStarts[i] <= d}) - 1

(* Series.dt.to_period(freq) / DataFrame.to_period(freq): the ordinal of   *)
(* the period holding day d.  'W' is W-SUN: weeks run Monday..Sunday.      *)
ToPeriod(d, freq) ==
    CASE freq = "W" -> d \div DaysPerWeek
      [] freq = "M" -> MonthOf(d)
      [] freq = "Q" -> MonthOf(d) \div 3

(* PeriodIndex.to_timestamp(): the first day of period p                   *)
ToTimestamp(p, freq) ==
    CASE freq = "W" -> p * DaysPerWeek
      [] freq = "M" -> MonthStarts[p + 1]
      [] freq = "Q" -> MonthStarts[3 * p + 1]

----------------------------------------------------------------------------
(* Tables                                                                   *)

Row(m, d, v) == [member_ID |-> m, delivery_date |-> d, order_request_value |-> v]

Range(s) == {s[i] : i \in DOMAIN s}

(* df.loc[df.member_ID != 46] *)
CountRows(df, idx) == Cardinality(idx)

RECURSIVE SelectSeq2(_, _)
SelectSeq2(s, keep) ==
    IF s = <<>> THEN <<>>
    ELSE IF s[1].member_ID \in keep
         THEN <<s[1]>> \o SelectSeq2(Tail(s), keep)
         ELSE SelectSeq2(Tail(s), keep)

KeepAll(df) == df

RemoveCompanyAccount(df) ==
    SelectSeq2(df, {r.member_ID : r \in Range(df)} \ {CompanyAccount})

NA == [na |-> TRUE]

RECURSIVE SumOver(_, _)
SumOver(S, f) ==
    IF S = {} THEN 0
    ELSE LET x == CHOOSE y \in S : TRUE IN f[x] + SumOver(S \ {x}, f)

----------------------------------------------------------------------------
(* cohort.make_retention_matrix                                             *)

MemberDates(df, m) == {df[j].delivery_date : j \in {k \in DOMAIN df : df[k].member_ID = m}}

LastSeen(df, m) == MaxOf(MemberDates(df, m))

(* groupby('member_ID')['delivery_date'].transform('min') *)
FirstSeen(df, m) == MinOf(MemberDates(df, m))

(* the two columns added to members_cohort, per row i *)
DeliveryFreq(df, i, freq) == ToPeriod(df[i].delivery_date, freq)

(* the period of the row's own delivery *)
RowPeriod(df, i, freq) == ToPeriod(df[i].delivery_date, freq)

Cohort(df, i, freq) == ToPeriod(FirstSeen(df, df[i].member_ID), freq)

(* agg(n_members=('member_ID', 'nunique')) over the rows idx of one group *)
NUnique(df, idx) == Cardinality({df[i].member_ID : i \in idx})

(* groupby(['cohort', 'delivery_freq']).agg(...).reset_index() followed by *)
(* the period_number column                                                *)
MembersCohort(df, freq) ==
    LET keys == {<<Cohort(df, i, freq), DeliveryFreq(df, i, freq)>> : i \in DOMAIN df}
        group(k) == {i \in DOMAIN df :
                        <<Cohort(df, i, freq), DeliveryFreq(df, i, freq)>> = k}
    IN {[cohort |-> k[1], delivery_freq |-> k[2],
         n_members |-> NUnique(df, group(k)),
         period_number |-> k[2] - k[1]] : k \in keys}

(* pivot_table(index='cohort', columns='period_number', values='n_members') *)
(* Each (cohort, period_number) pair comes from exactly one aggregated row, *)
(* so the default mean aggregation returns that row's n_members.            *)
PivotTable(mc) ==
    LET index == {r.cohort : r \in mc}
        columns == {r.period_number : r \in mc}
        at(c, k) == {r \in mc : r.cohort = c /\ r.period_number = k}
    IN [index |-> index, columns |-> columns,
        cell |-> [c \in index, k \in columns |->
                    IF at(c, k) = {} THEN NA
                    ELSE [na |-> FALSE,
                          n |-> SumOver(at(c, k), [r \in mc |-> r.n_members])
                                  \div Cardinality(at(c, k))]]]

LastColumn(pivot) == MaxOf(pivot.columns)

(* cohort_pivot.iloc[:, 0]: pivot_table sorts the columns *)
FirstColumn(pivot) == MinOf(pivot.columns)

(* cohort_pivot.div(cohort_size, axis=0) *)
Div(pivot, col) ==
    [c \in pivot.index, k \in pivot.columns |->
        IF pivot.cell[c, k].na \/ pivot.cell[c, col].na THEN NA
        ELSE [na |-> FALSE, num |-> pivot.cell[c, k].n, den |-> pivot.cell[c, col].n]]

make_retention_matrix(df, freq) ==
    LET cohort_pivot == PivotTable(MembersCohort(df, freq))
    IN IF cohort_pivot.columns = {}
       THEN [kind |-> "raised", exc |-> "IndexError"]
       ELSE [kind |-> "tuple",
             retention_matrix |->
                 [index |-> cohort_pivot.index, columns |-> cohort_pivot.columns,
                  cell |-> Div(cohort_pivot, FirstColumn(cohort_pivot))],
             cohort_pivot |-> cohort_pivot]

----------------------------------------------------------------------------
(* rfm.make_table                                                           *)

Rat(n, d) == [inf |-> FALSE, num |-> n, den |-> d]

Inf == [inf |-> TRUE]

(* a < b and a = b on exact fractions (denominators are positive); np.inf   *)
(* is above every finite value                                              *)
RLess(a, b) ==
    IF a.inf THEN FALSE
    ELSE IF b.inf THEN TRUE
    ELSE a.num * b.den < b.num * a.den

REq(a, b) ==
    IF a.inf \/ b.inf THEN a.inf /\ b.inf
    ELSE a.num * b.den = b.num * a.den

RfmKeepAll(df) == df

(* df.loc[df.member_ID != 46] *)
RfmRemoveCompanyAccount(df) ==
    SelectSeq2(df, {r.member_ID : r \in Range(df)} \ {CompanyAccount})

RawDate(d, freq) == d

(* set_index('delivery_date').to_period(freq).to_timestamp(): the first    *)
(* day of the period holding d                                              *)
PeriodStart(d, freq) == ToTimestamp(ToPeriod(d, freq), freq)

(* freq_timedeltas and the floor division of a span of days by it *)
FloorDivTimedelta(days, freq) ==
    CASE freq = "W" -> days \div DaysPerWeek
      [] freq = "M" -> (days * SecondsPerDay) \div SecondsPerMonth
      [] freq = "Q" -> (days * SecondsPerDay) \div (3 * SecondsPerMonth)

(* the rows of a keyed set of records as a sequence ordered by member_ID   *)
RECURSIVE SortByMember(_)
SortByMember(S) ==
    IF S = {} THEN <<>>
    ELSE LET r == CHOOSE x \in S : \A y \in S : x.member_ID <= y.member_ID
         IN <<r>> \o SortByMember(S \ {r})

(* the rows moved to their period start, one record per row, not summed *)
RowsUnsummed(df, freq) ==
    {[delivery_date |-> PeriodStart(df[i].delivery_date, freq),
      member_ID |-> df[i].member_ID,
      order_request_value |-> df[i].order_request_value,
      row |-> i] : i \in DOMAIN df}

(* groupby(['delivery_date', 'member_ID']).sum() *)
SumByPeriodAndMember(df, freq) ==
    LET key(i) == <<PeriodStart(df[i].delivery_date, freq), df[i].member_ID>>
        keys == {key(i) : i \in DOMAIN df}
    IN {[delivery_date |-> k[1], member_ID |-> k[2],
         order_request_value |->
             SumOver({i \in DOMAIN df : key(i) = k},
                     [i \in DOMAIN df |-> df[i].order_request_value])] : k \in keys}

make_table(members_df, freq) ==
    LET df == RfmRemoveCompanyAccount(members_df)
        period_end == MaxOf({df[i].delivery_date : i \in DOMAIN df})
        summed == SumByPeriodAndMember(df, freq)
        members == {r.member_ID : r \in summed}
        g(m) == {r \in summed : r.member_ID = m}
        agg(m) ==
            [member_ID |-> m,
             recency |-> FloorDivTimedelta(
                             period_end - MaxOf({r.delivery_date : r \in g(m)}), freq),
             frequency |-> Cardinality(g(m)),
             monetary_value |->
                 Rat(SumOver(g(m), [r \in summed |-> r.order_request_value]),
                     Cardinality(g(m)))]
    IN SortByMember({agg(m) : m \in members})

----------------------------------------------------------------------------
(* rfm.add_score                                                            *)

RECURSIVE Insert(_, _)
Insert(x, s) ==
    IF s = <<>> THEN <<x>>
    ELSE IF RLess(s[1], x) THEN <<s[1]>> \o Insert(x, Tail(s))
    ELSE <<x>> \o s

RECURSIVE SortRats(_)
SortRats(s) == IF s = <<>> THEN <<>> ELSE Insert(s[1], SortRats(Tail(s)))

(* the k-th edge of four bins of equal width, as pd.cut(x, 4) would place it *)
EqualWidthEdge(sorted, k) ==
    LET lo == sorted[1]
        hi == sorted[Len(sorted)]
    IN Rat((4 - k) * lo.num * hi.den + k * hi.num * lo.den, 4 * lo.den * hi.den)

(* the q = k/4 quantile of the sorted values, linear interpolation *)
Quantile(sorted, k) ==
    LET pos4 == k * (Len(sorted) - 1)
        j == pos4 \div 4
        r == pos4 % 4
        a == sorted[j + 1]
        b == sorted[j + 2]
    IN IF r = 0 THEN a
       ELSE Rat((4 - r) * a.num * b.den + r * b.num * a.den, 4 * a.den * b.den)

ExcludeLowest(v, bins) == FALSE

(* include_lowest=True: a value equal to the first edge joins the first bin *)
IncludeLowest(v, bins) == REq(v, bins[1])

(* the bin of v (right-closed intervals), 0 when v is in no bin *)
BinOf(v, bins) ==
    LET id == Cardinality({j \in DOMAIN bins : RLess(bins[j], v)})
        id2 == IF IncludeLowest(v, bins) THEN 1 ELSE id
    IN IF id2 = Len(bins) THEN 0 ELSE id2

(* the label of v, or NaN *)
LabelOf(v, bins, labels) ==
    IF BinOf(v, bins) = 0 THEN NA ELSE [na |-> FALSE, v |-> labels[BinOf(v, bins)]]

(* periods per year, and the recency edges 0, 0.25, 0.5, 1, inf times it *)
freqs == [W |-> 52, M |-> 12, Q |-> 4]

r_range(freq) ==
    <<Rat(0, 1), Rat(freqs[freq], 4), Rat(freqs[freq], 2), Rat(freqs[freq], 1), Inf>>

(* the labels of left-closed bins, as pd.cut(..., right=False) gives them  *)
cutLeftClosed(x, bins) ==
    [i \in DOMAIN x |->
        LET id == Cardinality({j \in DOMAIN bins : ~RLess(x[i], bins[j])})
        IN IF id = 0 \/ id = Len(bins) THEN NA
           ELSE [na |-> FALSE, v |-> <<4, 3, 2, 1>>[id]]]

(* pd.cut(recency, bins=r_range, labels=[4, 3, 2, 1], include_lowest=True) *)
cut(x, bins) == [i \in DOMAIN x |-> LabelOf(x[i], bins, <<4, 3, 2, 1>>)]

HasDuplicates(bins) ==
    \E i, j \in DOMAIN bins : i < j /\ REq(bins[i], bins[j])

(* pd.qcut(x, 4, labels=range(1, 5), retbins=True): the quantile edges,    *)
(* ValueError when two edges coincide (also for an empty table, whose      *)
(* edges are all NaN)                                                       *)
qcut(x) ==
    LET sorted == SortRats(x)
        bins == [k \in 1..5 |-> Quantile(sorted, k - 1)]
    IN IF x = <<>> \/ HasDuplicates(bins)
       THEN [kind |-> "raised", exc |-> "ValueError"]
       ELSE [kind |-> "ok", bins |-> bins,
             labels |-> [i \in DOMAIN x |-> LabelOf(x[i], bins, <<1, 2, 3, 4>>)]]

Chr(d) == <<"0", "1", "2", "3", "4", "5", "6", "7", "8", "9">>[d + 1]

(* astype(str) of a score column entry *)
AsStr(label) == IF label.na THEN <<"n", "a", "n">> ELSE <<Chr(label.v)>>

add_score(rfm_table, freq) ==
    LET r_bins == r_range(freq)
        r_labels == cut([i \in DOMAIN rfm_table |-> Rat(rfm_table[i].recency, 1)], r_bins)
        f == qcut([i \in DOMAIN rfm_table |-> Rat(rfm_table[i].frequency, 1)])
        m == qcut([i \in DOMAIN rfm_table |-> rfm_table[i].monetary_value])
    IN IF f.kind = "raised" THEN f
       ELSE IF m.kind = "raised" THEN m
       ELSE [kind |-> "ok",
             rfm_table |->
                 [i \in DOMAIN rfm_table |->
                     [member_ID |-> rfm_table[i].member_ID,
                      recency |-> rfm_table[i].recency,
                      frequency |-> rfm_table[i].frequency,
                      monetary_value |-> rfm_table[i].monetary_value,
                      r_score |-> r_labels[i],
                      f_score |-> f.labels[i],
                      m_score |-> m.labels[i],
                      rfm_score |-> AsStr(r_labels[i]) \o AsStr(f.labels[i])
                                      \o AsStr(m.labels[i])]],
             bin_info |-> [r |-> r_bins, f |-> f.bins, m |-> m.bins]]

----------------------------------------------------------------------------
(* Text: strings that are searched or parsed are sequences of characters   *)

RECURSIVE Digits(_)
Digits(n) == IF n < 10 THEN <<Chr(n)>> ELSE Digits(n \div 10) \o <<Chr(n % 10)>>

TwoDigits(n) == <<Chr(n \div 10), Chr(n % 10)>>

IsDigit(c) == \E i \in 0..9 : Chr(i) = c

DigitVal(c) == CHOOSE i \in 0..9 : Chr(i) = c

IsDigits(t) == t # <<>> /\ \A i \in DOMAIN t : IsDigit(t[i])

RECURSIVE ParseInt(_)
ParseInt(t) ==
    IF Len(t) = 1 THEN DigitVal(t[1])
    ELSE 10 * ParseInt(SubSeq(t, 1, Len(t) - 1)) + DigitVal(t[Len(t)])

(* sub in text *)
Contains(text, sub) ==
    \E i \in 0..(Len(text) - Len(sub)) : SubSeq(text, i + 1, i + Len(sub)) = sub

Year == <<"2", "0", "1", "8">>

DayOfMonth(d) == d - MonthStarts[MonthOf(d) + 1] + 1

(* strftime("%Y%m%d") *)
StrfYmd(d) == Year \o TwoDigits(MonthOf(d) + 1) \o TwoDigits(DayOfMonth(d))

(* a datetime64 value as to_csv writes it: YYYY-MM-DD *)
FormatDate(d) ==
    Year \o <<"-">> \o TwoDigits(MonthOf(d) + 1) \o <<"-">> \o TwoDigits(DayOfMonth(d))

IsDateText(t) ==
    /\ Len(t) = 10
    /\ t[5] = "-" /\ t[8] = "-"
    /\ IsDigits(SubSeq(t, 1, 4)) /\ IsDigits(SubSeq(t, 6, 7)) /\ IsDigits(SubSeq(t, 9, 10))
    /\ SubSeq(t, 1, 4) = Year
    /\ ParseInt(SubSeq(t, 6, 7)) \in 1..Len(MonthStarts)

(* the parse_dates conversion of one cell *)
ParseDate(t) == MonthStarts[ParseInt(SubSeq(t, 6, 7))] + ParseInt(SubSeq(t, 9, 10)) - 1

(* a float64 value as to_csv writes it; the modelled values are whole *)
FormatFloat(v) == Digits(v) \o <<".", "0">>

IsFloatText(t) ==
    /\ Len(t) >= 3
    /\ SubSeq(t, Len(t) - 1, Len(t)) = <<".", "0">>
    /\ IsDigits(SubSeq(t, 1, Len(t) - 2))

ParseFloat(t) == ParseInt(SubSeq(t, 1, Len(t) - 2))

NameOrders == <<"o", "r", "d", "e", "r", "s">>

NameMembers == <<"m", "e", "m", "b", "e", "r", "s">>

NameProducts == <<"p", "r", "o", "d", "u", "c", "t", "s">>

NameRfmTable == <<"r", "f", "m", "_", "t", "a", "b", "l", "e">>

FigRetentionMatrix ==
    <<"r", "e", "t", "e", "n", "t", "i", "o", "n", "_", "m", "a", "t", "r", "i", "x">>

FigRfmHeatmap == <<"r", "f", "m", "_", "h", "e", "a", "t", "m", "a", "p">>

----------------------------------------------------------------------------
(* Data frames as the CSV helpers see them: a name tag, the index columns, *)
(* the data columns, a dtype per column and the rows                       *)

None == [na |-> TRUE]

IsNone(x) == x.na

Frame(name, index, columns, dtypes, rows) ==
    [na |-> FALSE, df_name |-> name, index |-> index, columns |-> columns,
     dtypes |-> dtypes, rows |-> rows]

(* df_orders: index order_ID, the three date columns (dataframes.py 32-40) *)
OrdersFrame(rows) ==
    Frame(NameOrders, <<"order_ID">>, <<"delivery_date", "created_at", "updated_at">>,
          [order_ID |-> "int64", delivery_date |-> "datetime64",
           created_at |-> "datetime64", updated_at |-> "datetime64"],
          rows)

(* df_members after features.main: a fresh unnamed RangeIndex, member_ID a *)
(* column, delivery_date merged in, order_request_value added              *)
MembersFrame(rows) ==
    Frame(NameMembers, <<"">>, <<"member_ID", "delivery_date", "order_request_value">>,
          ("" :> "int64") @@
          [member_ID |-> "int64", delivery_date |-> "datetime64",
           order_request_value |-> "float64"],
          [i \in DOMAIN rows |-> ("" :> (i - 1)) @@ rows[i]])

(* df_products: index (order_ID, product_ID) *)
ProductsFrame(rows) ==
    Frame(NameProducts, <<"order_ID", "product_ID">>, <<"net_price">>,
          [order_ID |-> "int64", product_ID |-> "int64", net_price |-> "float64"],
          rows)

(* the scored rfm_table: index member_ID, name tag set by make_table *)
RfmFrame(rows) ==
    Frame(NameRfmTable, <<"member_ID">>,
          <<"recency", "frequency", "monetary_value", "r_score", "f_score", "m_score",
            "rfm_score">>,
          [member_ID |-> "int64", recency |-> "int64", frequency |-> "int64",
           monetary_value |-> "object", r_score |-> "object", f_score |-> "object",
           m_score |-> "object", rfm_score |-> "object"],
          rows)

----------------------------------------------------------------------------
(* utils.export_as_csv, utils.export_plot, utils.load_data                  *)

FormatCell(dtype, v) ==
    CASE dtype = "datetime64" -> FormatDate(v)
      [] dtype = "int64" -> Digits(v)
      [] dtype = "float64" -> FormatFloat(v)
      [] OTHER -> <<v>>

(* df.to_csv: a header line (index names, then columns) and a line per row *)
to_csv(df) ==
    LET header == df.index \o df.columns
    IN [header |-> header,
        lines |-> [i \in DOMAIN df.rows |->
                     [j \in DOMAIN header |->
                        FormatCell(df.dtypes[header[j]], df.rows[i][header[j]])]]]

(* the file written for the frame df on day t *)
CsvName(df, t) ==
    StrfYmd(t) \o <<"_", "s", "c", "o", "o", "p", "_">> \o df.df_name
        \o <<".", "c", "s", "v">>

WriteFile(dir, name, content) ==
    {f \in dir : f.name # name} \cup {[name |-> name, content |-> content]}

RECURSIVE export_as_csv(_, _, _)
export_as_csv(df_list, dir, t) ==
    IF df_list = <<>> THEN dir
    ELSE export_as_csv(Tail(df_list),
                       WriteFile(dir, CsvName(df_list[1], t), to_csv(df_list[1])), t)

(* the name of the figure file; freq is never empty here *)
export_plot(figs, figname, freq, t) ==
    figs \cup {StrfYmd(t) \o <<"_", freq, "_">> \o figname \o <<".", "p", "n", "g">>}

NoParseDates == {}

OrdersParseDates == {"delivery_date", "created_at", "updated_at"}

MembersParseDates == {"delivery_date"}

(* pd.read_csv(file, index_col=..., parse_dates=...); index_col is a list  *)
(* of header positions.  A parse_dates column that is not in the header is *)
(* a ValueError; a column is typed by what all its cells parse as.         *)
read_csv(content, index_pos, parse_dates) ==
    LET header == content.header
        names == Range(header)
        pos(c) == CHOOSE j \in DOMAIN header : header[j] = c
        col(c) == {content.lines[i][pos(c)] : i \in DOMAIN content.lines}
        dtype(c) ==
            IF c \in parse_dates /\ \A t \in col(c) : IsDateText(t) THEN "datetime64"
            ELSE IF col(c) = {} THEN "object"
            ELSE IF \A t \in col(c) : IsDigits(t) THEN "int64"
            ELSE IF \A t \in col(c) : IsFloatText(t) THEN "float64"
            ELSE "object"
        parse(c, t) ==
            CASE dtype(c) = "datetime64" -> ParseDate(t)
              [] dtype(c) = "int64" -> ParseInt(t)
              [] dtype(c) = "float64" -> ParseFloat(t)
              [] OTHER -> t
    IN IF ~(parse_dates \subseteq names) \/ ~(Range(index_pos) \subseteq DOMAIN header)
       THEN [kind |-> "raised", exc |-> "ValueError"]
       ELSE [kind |-> "ok", na |-> FALSE,
             index |-> [k \in DOMAIN index_pos |-> header[index_pos[k]]],
             columns |-> SelectSeq(header, LAMBDA c :
                             \A k \in DOMAIN index_pos : header[index_pos[k]] # c),
             dtypes |-> [c \in names |-> dtype(c)],
             rows |-> [i \in DOMAIN content.lines |->
                         [c \in names |-> parse(c, content.lines[i][pos(c)])]]]

(* index_col given by name: the positions of those names, 0 if missing *)
IndexPos(content, index_names) ==
    [k \in DOMAIN index_names |->
        IF index_names[k] \in Range(content.header)
        THEN CHOOSE j \in DOMAIN content.header : content.header[j] = index_names[k]
        ELSE 0]

ExactKindOf(name) ==
    IF name = NameOrders THEN "orders"
    ELSE IF name = NameMembers THEN "members"
    ELSE IF name = NameProducts THEN "products"
    ELSE "other"

(* the if / elif chain over the file name *)
KindOf(name) ==
    IF Contains(name, NameOrders) THEN "orders"
    ELSE IF Contains(name, NameMembers) THEN "members"
    ELSE IF Contains(name, NameProducts) THEN "products"
    ELSE "other"

ReadAs(kind, content) ==
    CASE kind = "orders" ->
           read_csv(content, IndexPos(content, <<"order_ID">>), OrdersParseDates)
      [] kind = "members" -> read_csv(content, <<1>>, MembersParseDates)
      [] kind = "products" ->
           read_csv(content, IndexPos(content, <<"order_ID", "product_ID">>), NoParseDates)

(* load_data(folder): every outcome some os.listdir order can produce; the *)
(* last file of a kind in that order is the one returned                   *)
load_data(dir) ==
    LET of(kind) == {f \in dir : KindOf(f.name) = kind}
        read(kind) == {ReadAs(kind, f.content) : f \in of(kind)}
        pick(kind) == IF of(kind) = {} THEN {None} ELSE read(kind)
        kinds == {"orders", "members", "products"}
    IN IF \E k \in kinds : \E r \in read(k) : r.kind = "raised"
       THEN {[kind |-> "raised", exc |-> "ValueError"]}
       ELSE {[kind |-> "loaded", df_orders |-> o, df_members |-> m, df_products |-> p] :
                o \in pick("orders"), m \in pick("members"), p \in pick("products")}

----------------------------------------------------------------------------
(* The entry points                                                         *)

(* the freq arguments tried: the three the package knows and an unknown one *)
FreqArgs == {"W", "M", "Q", "D"}

CohortAnyFreq(freq) == freq \in {"W", "M", "Q"}

(* cohort.main: freq not in ['M', 'Q'] *)
CohortFreqValid(freq) == freq \in {"M", "Q"}

RfmAnyFreq(freq) == freq \in {"W", "M", "Q"}

(* rfm.main: freq not in ['W', 'M'] *)
RfmFreqValid(freq) == freq \in {"W", "M"}

DateRange(df) ==
    [t_min |-> ToPeriod(MinOf({df[i].delivery_date : i \in DOMAIN df}), "M"),
     t_max |-> ToPeriod(MaxOf({df[i].delivery_date : i \in DOMAIN df}), "M")]

(* what cohort.plot computes for its annotation before drawing *)
CohortPlotArgs(cohort_pivot, df) ==
    [fn |-> "cohort.plot",
     n |-> SumOver(cohort_pivot.index,
                   [c \in cohort_pivot.index |->
                       cohort_pivot.cell[c, FirstColumn(cohort_pivot)].n]),
     t |-> DateRange(df)]

RfmPlotArgsMixedBins(rfm_table, df, bin_info) ==
    [fn |-> "rfm.plot", n |-> Len(rfm_table), t |-> DateRange(df),
     bin_info |-> [r |-> bin_info.r, f |-> bin_info.f, m |-> bin_info.f]]

(* what rfm.plot receives and computes for its annotation *)
RfmPlotArgs(rfm_table, df, bin_info) ==
    [fn |-> "rfm.plot", n |-> Len(rfm_table), t |-> DateRange(df), bin_info |-> bin_info]

CohortMain(freq, do_plot) ==
    /\ pc = "ready"
    /\ pc' = "done"
    /\ call' = [fn |-> "cohort.main", freq |-> freq, export_csv |-> FALSE,
                export_plot |-> do_plot]
    /\ UNCHANGED <<df_orders, df_members, df_products, today, processed>>
    /\ IF ~CohortFreqValid(freq)
       THEN ret' = [kind |-> "None"] /\ UNCHANGED <<plot_args, figures>>
       ELSE LET df == RemoveCompanyAccount(df_members)
                r == make_retention_matrix(df, freq)
            IN /\ ret' = r
               /\ IF r.kind = "tuple" /\ do_plot
                  THEN /\ plot_args' = CohortPlotArgs(r.cohort_pivot, df)
                       /\ figures' = export_plot(figures, FigRetentionMatrix, freq, today)
                  ELSE UNCHANGED <<plot_args, figures>>

(* a direct call of cohort.make_retention_matrix on the members table *)
MakeRetentionMatrix(freq) ==
    /\ pc = "ready"
    /\ pc' = "done"
    /\ call' = [fn |-> "cohort.make_retention_matrix", freq |-> freq,
                export_csv |-> FALSE, export_plot |-> FALSE]
    /\ ret' = make_retention_matrix(df_members, freq)
    /\ UNCHANGED <<df_orders, df_members, df_products, today, plot_args, processed,
                   figures>>

RfmMain(freq, do_csv, do_plot) ==
    /\ pc = "ready"
    /\ pc' = "done"
    /\ call' = [fn |-> "rfm.main", freq |-> freq, export_csv |-> do_csv,
                export_plot |-> do_plot]
    /\ UNCHANGED <<df_orders, df_members, df_products, today>>
    /\ IF ~RfmFreqValid(freq)
       THEN ret' = [kind |-> "None"] /\ UNCHANGED <<plot_args, processed, figures>>
       ELSE LET s == add_score(make_table(df_members, freq), freq)
            IN IF s.kind = "raised"
               THEN ret' = s /\ UNCHANGED <<plot_args, processed, figures>>
               ELSE /\ ret' = [kind |-> "rfm_table", rfm_table |-> s.rfm_table]
                    /\ processed' = IF do_csv
                                    THEN export_as_csv(<<RfmFrame(s.rfm_table)>>,
                                                       processed, today)
                                    ELSE processed
                    /\ IF do_plot
                       THEN /\ plot_args' = RfmPlotArgs(s.rfm_table, df_members, s.bin_info)
                            /\ figures' = export_plot(figures, FigRfmHeatmap, freq, today)
                       ELSE UNCHANGED <<plot_args, figures>>

(* a direct call of rfm.make_table *)
MakeTable(freq) ==
    /\ pc = "ready"
    /\ pc' = "done"
    /\ call' = [fn |-> "rfm.make_table", freq |-> freq, export_csv |-> FALSE,
                export_plot |-> FALSE]
    /\ ret' = [kind |-> "rfm_table", rfm_table |-> make_table(df_members, freq)]
    /\ UNCHANGED <<df_orders, df_members, df_products, today, plot_args, processed,
                   figures>>

----------------------------------------------------------------------------
(* Members tables: every table of at most MaxRows rows over the sample     *)
(* members, dates and values.  No grouped result depends on the order of   *)
(* the rows, so one order (by date, member, value) stands for each table;   *)
(* the rows of a table differ in member, date or value.                    *)

MemberIDs == Customers \cup {CompanyAccount}

AllRows == {Row(m, d, v) : m \in MemberIDs, d \in Dates, v \in Values}

RowLess(a, b) ==
    \/ a.delivery_date < b.delivery_date
    \/ /\ a.delivery_date = b.delivery_date
       /\ \/ a.member_ID < b.member_ID
          \/ a.member_ID = b.member_ID /\ a.order_request_value < b.order_request_value

RECURSIVE TablesOfLen(_)
TablesOfLen(n) ==
    IF n = 0 THEN {<<>>}
    ELSE UNION {{Append(s, r) : r \in {x \in AllRows : s = <<>> \/ RowLess(s[Len(s)], x)}} :
                  s \in TablesOfLen(n - 1)}

Tables == UNION {TablesOfLen(n) : n \in 0..MaxRows}

(* the day of the run *)
Today == 210

NoCall == [fn |-> "none", freq |-> "", export_csv |-> FALSE, export_plot |-> FALSE]

Init ==
    /\ df_members \in Tables
    /\ df_orders = <<>>
    /\ df_products = <<>>
    /\ today = Today
    /\ pc = "ready"
    /\ call = NoCall
    /\ ret = [kind |-> "nocall"]
    /\ plot_args = [fn |-> "none"]
    /\ processed = {}
    /\ figures = {}

Next ==
    \/ \E freq \in FreqArgs, do_plot \in BOOLEAN : CohortMain(freq, do_plot)
    \/ \E freq \in {"M", "Q"} : MakeRetentionMatrix(freq)
    \/ \E freq \in FreqArgs, do_csv \in BOOLEAN, do_plot \in BOOLEAN :
          RfmMain(freq, do_csv, do_plot)
    \/ \E freq \in {"W", "M"} : MakeTable(freq)

Spec == Init /\ [][Next]_vars

----------------------------------------------------------------------------
(* add_score called on its own.  The tables handed to it have member_IDs   *)
(* 1..n in ascending order (make_table's groupby sorts them); add_score    *)
(* treats every row alike, so one table stands for each collection of      *)
(* (frequency, monetary_value, recency) rows.                              *)

MaxScoreRows == 4

RecencySamples == {0}

FrequencySamples == {1, 2, 3}

MonetarySamples == {Rat(1, 1), Rat(3, 2), Rat(2, 1), Rat(7, 1)}

ScoreRows ==
    {[recency |-> r, frequency |-> f, monetary_value |-> mv] :
        r \in RecencySamples, f \in FrequencySamples, mv \in MonetarySamples}

ScoreRowLeq(a, b) ==
    \/ a.frequency < b.frequency
    \/ /\ a.frequency = b.frequency
       /\ \/ RLess(a.monetary_value, b.monetary_value)
          \/ a.monetary_value = b.monetary_value /\ a.recency <= b.recency

RECURSIVE ScoreRowSeqs(_)
ScoreRowSeqs(n) ==
    IF n = 0 THEN {<<>>}
    ELSE UNION {{Append(s, r) :
                    r \in {x \in ScoreRows : s = <<>> \/ ScoreRowLeq(s[Len(s)], x)}} :
                  s \in ScoreRowSeqs(n - 1)}

RfmTables ==
    {[i \in DOMAIN s |-> [member_ID |-> i, recency |-> s[i].recency,
                          frequency |-> s[i].frequency,
                          monetary_value |-> s[i].monetary_value]] :
        s \in UNION {ScoreRowSeqs(n) : n \in 0..MaxScoreRows}}

AddScore(rfm_table, freq) ==
    /\ pc = "ready"
    /\ pc' = "done"
    /\ call' = [fn |-> "rfm.add_score", freq |-> freq, export_csv |-> FALSE,
                export_plot |-> FALSE, rfm_table |-> rfm_table]
    /\ ret' = add_score(rfm_table, freq)
    /\ UNCHANGED <<df_orders, df_members, df_products, today, plot_args, processed,
                   figures>>

InitScore ==
    /\ df_members = <<>>
    /\ df_orders = <<>>
    /\ df_products = <<>>
    /\ today = Today
    /\ pc = "ready"
    /\ call = NoCall
    /\ ret = [kind |-> "nocall"]
    /\ plot_args = [fn |-> "none"]
    /\ processed = {}
    /\ figures = {}

NextScore == \E t \in RfmTables, freq \in {"W", "M"} : AddScore(t, freq)

SpecScore == InitScore /\ [][NextScore]_vars

----------------------------------------------------------------------------
(* The two-week scenario: an order delivered on some weekday of week w     *)
(* with members 1 and 2, and an order delivered on some weekday of week    *)
(* w + 1 with member 1.                                                     *)

MaxBaseWeek == 1

ScenarioTables ==
    {<<Row(1, DaysPerWeek * w + a, v1), Row(2, DaysPerWeek * w + a, v2),
       Row(1, DaysPerWeek * (w + 1) + b, v3)>> :
        w \in 0..MaxBaseWeek, a \in 0..(DaysPerWeek - 1), b \in 0..(DaysPerWeek - 1),
        v1 \in Values, v2 \in Values, v3 \in Values}

InitScenario ==
    /\ df_members \in ScenarioTables
    /\ df_orders = <<>>
    /\ df_products = <<>>
    /\ today = Today
    /\ pc = "ready"
    /\ call = NoCall
    /\ ret = [kind |-> "nocall"]
    /\ plot_args = [fn |-> "none"]
    /\ processed = {}
    /\ figures = {}

NextScenario ==
    \/ MakeTable("W")
    \/ \E do_csv \in BOOLEAN, do_plot \in BOOLEAN : RfmMain("W", do_csv, do_plot)

SpecScenario == InitScenario /\ [][NextScenario]_vars

----------------------------------------------------------------------------
(* Export and load of the three tables.  Every table has at least one row  *)
(* (a dump with an order that has a member and a product).                 *)

MaxOrders == 2

MaxCsvRows == 1

(* an order created the day before its delivery and last updated on it *)
OrderRow(i, d) ==
    [order_ID |-> i, delivery_date |-> d, created_at |-> d - 1, updated_at |-> d]

OrdersTables ==
    UNION {{[i \in 1..n |-> OrderRow(i, f[i])] : f \in [1..n -> Dates]} : n \in 1..MaxOrders}

CsvMembersRows == {Row(m, d, 1) : m \in Customers, d \in Dates}

RECURSIVE CsvMembersOfLen(_)
CsvMembersOfLen(n) ==
    IF n = 0 THEN {<<>>}
    ELSE UNION {{Append(s, r) :
                    r \in {x \in CsvMembersRows : s = <<>> \/ RowLess(s[Len(s)], x)}} :
                  s \in CsvMembersOfLen(n - 1)}

CsvMembersTables == UNION {CsvMembersOfLen(n) : n \in 1..MaxCsvRows}

ProductsTables ==
    {[j \in 1..n |-> [order_ID |-> 1, product_ID |-> j, net_price |-> 1]] :
        n \in 1..MaxCsvRows}

(* a directory that still holds the orders file of the day before *)
StaleDir == export_as_csv(<<OrdersFrame(<<OrderRow(1, 1)>>)>>, {}, Today - 1)

Kinds == {"orders", "members", "products"}

(* the frames named by sel, in the order make_dataframes exports them *)
FramesOf(sel, orders, members, products) ==
    (IF "orders" \in sel THEN <<OrdersFrame(orders)>> ELSE <<>>)
    \o (IF "members" \in sel THEN <<MembersFrame(members)>> ELSE <<>>)
    \o (IF "products" \in sel THEN <<ProductsFrame(products)>> ELSE <<>>)

ExportAsCsv(sel) ==
    /\ pc = "ready"
    /\ pc' = "exported"
    /\ call' = [fn |-> "utils.export_as_csv", freq |-> "", export_csv |-> TRUE,
                export_plot |-> FALSE]
    /\ processed' = export_as_csv(FramesOf(sel, df_orders, df_members, df_products),
                                  processed, today)
    /\ UNCHANGED <<df_orders, df_members, df_products, today, ret, plot_args, figures>>

LoadData ==
    /\ pc \in {"ready", "exported"}
    /\ pc' = "loaded"
    /\ call' = [fn |-> "utils.load_data", freq |-> "", export_csv |-> FALSE,
                export_plot |-> FALSE]
    /\ ret' \in load_data(processed)
    /\ UNCHANGED <<df_orders, df_members, df_products, today, plot_args, processed,
                   figures>>

InitCsv ==
    /\ df_orders \in OrdersTables
    /\ df_members \in CsvMembersTables
    /\ df_products \in ProductsTables
    /\ today = Today
    /\ pc = "ready"
    /\ call = NoCall
    /\ ret = [kind |-> "nocall"]
    /\ plot_args = [fn |-> "none"]
    /\ processed \in {{}, StaleDir}
    /\ figures = {}

NextCsv ==
    \/ \E sel \in SUBSET Kinds : ExportAsCsv(sel)
    \/ LoadData

SpecCsv == InitCsv /\ [][NextCsv]_vars

----------------------------------------------------------------------------
(* features.order_request_value                                             *)
(* In this part net_price is in cents and an amount in tenths of a unit,    *)
(* so a line value is in thousandths.  The sample prices and amounts are    *)
(* multiples of 1/8, which float64 holds exactly.  An order_requests        *)
(* mapping is the sequence of its entries in the order the dict iterates.   *)

(* Series.replace(',', '.', regex=True) on one cell *)
ReplaceComma(t) == [i \in DOMAIN t |-> IF t[i] = "," THEN "." ELSE t[i]]

(* the cell matches ^\s*$ *)
IsBlank(t) == \A i \in DOMAIN t : t[i] = " "

(* astype('float') of a decimal text with at most one decimal place, in    *)
(* tenths                                                                   *)
TenthsOf(t) ==
    LET dots == {i \in DOMAIN t : t[i] = "."}
    IN IF dots = {} THEN 10 * ParseInt(t)
       ELSE LET p == CHOOSE i \in dots : TRUE
            IN 10 * ParseInt(SubSeq(t, 1, p - 1)) + ParseInt(SubSeq(t, p + 1, Len(t)))

(* filled_amount: the 'filled' entries with ',' read as '.', blank as 0 *)
filled_amount(order_request) ==
    [i \in DOMAIN order_request |->
        LET t == ReplaceComma(order_request[i].filled)
        IN IF IsBlank(t) THEN 0 ELSE TenthsOf(t)]

(* product_ID: the keys of the mapping *)
product_ID(order_request) == [i \in DOMAIN order_request |-> order_request[i].product_ID]

(* the positions of the products table selected by (order_ID, product_ID)  *)
Selected(products, order_ID, keys) ==
    {j \in DOMAIN products :
        products[j].order_ID = order_ID /\ products[j].product_ID \in Range(keys)}

RECURSIVE InTableOrder(_, _)
InTableOrder(products, idx) ==
    IF idx = {} THEN <<>>
    ELSE LET j == MinOf(idx)
         IN <<products[j].net_price>> \o InTableOrder(products, idx \ {j})

InKeyOrder(products, order_ID, keys) ==
    [i \in DOMAIN keys |->
        products[CHOOSE j \in Selected(products, order_ID, <<keys[i]>>) : TRUE].net_price]

(* df_products.loc[(order_ID, product_ID), 'net_price'].reset_index(drop=True): *)
(* the selected prices, renumbered from 0.  pandas up to 1.0 returns the    *)
(* rows of a list lookup on a MultiIndex in the order of the table, pandas  *)
(* from 1.1 on in the order of the keys; the package pins neither.          *)
RowOrders == {"table", "keys"}

loc(products, order_ID, keys, row_order) ==
    IF row_order = "keys" THEN InKeyOrder(products, order_ID, keys)
    ELSE InTableOrder(products, Selected(products, order_ID, keys))

(* numpy round to the given unit: halves go to the even neighbour *)
RoundHalfEven(x, unit) ==
    LET q == x \div unit
        r2 == 2 * (x % unit)
    IN IF r2 < unit \/ (r2 = unit /\ q % 2 = 0) THEN q ELSE q + 1

(* np.sum(net_price * filled_amount).round(2): the two series are          *)
(* multiplied position by position; the result is in cents                  *)
PairedSum(net_price, amounts) ==
    RoundHalfEven(SumOver(DOMAIN amounts,
                          [i \in DOMAIN amounts |-> net_price[i] * amounts[i]]), 10)

order_request_value(members, products, row_order) ==
    [i \in DOMAIN members |->
        [member_ID |-> members[i].member_ID,
         order_ID |-> members[i].order_ID,
         order_requests |-> members[i].order_requests,
         order_request_value |->
             PairedSum(loc(products, members[i].order_ID,
                           product_ID(members[i].order_requests), row_order),
                       filled_amount(members[i].order_requests))]]

OrderRequestValue(row_order) ==
    /\ pc = "ready"
    /\ pc' = "done"
    /\ call' = [fn |-> "features.order_request_value", freq |-> "", export_csv |-> FALSE,
                export_plot |-> FALSE, row_order |-> row_order]
    /\ ret' = [kind |-> "df_members",
               df_members |-> order_request_value(df_members, df_products, row_order)]
    /\ UNCHANGED <<df_orders, df_members, df_products, today, plot_args, processed,
                   figures>>

(* Inputs: order 1 offers products 1 and 2 (listed either way round),      *)
(* order 2 offers product 1 at another price; every member row requests    *)
(* one or more products of its order, each once, with a filled amount of    *)
(* the samples.                                                             *)
MaxMemberRows == 1

FilledSamples == {<<"1">>, <<"0", ",", "5">>, <<"1", ",", "5">>, <<>>}

PriceOf == [o \in {1, 2}, p \in {1, 2} |->
               IF o = 2 THEN 125 ELSE IF p = 1 THEN 150 ELSE 275]

ProductRow(o, p) == [order_ID |-> o, product_ID |-> p, net_price |-> PriceOf[o, p]]

PricedProductsTables ==
    {<<ProductRow(1, 1), ProductRow(1, 2), ProductRow(2, 1)>>,
     <<ProductRow(1, 2), ProductRow(1, 1), ProductRow(2, 1)>>}

Offered(o) == IF o = 1 THEN {1, 2} ELSE {1}

(* the mappings over the products of order o: distinct keys, any order *)
RequestsOf(o) ==
    UNION {{[i \in 1..n |-> [product_ID |-> k[i], filled |-> f[i]]] :
               k \in {s \in [1..n -> Offered(o)] : \A a, b \in 1..n : a # b => s[a] # s[b]},
               f \in [1..n -> FilledSamples]} :
           n \in 1..Cardinality(Offered(o))}

RequestRows ==
    UNION {{[order_ID |-> o, order_requests |-> q] : q \in RequestsOf(o)} : o \in {1, 2}}

RequestTables ==
    UNION {{[i \in 1..n |-> [member_ID |-> i, order_ID |-> s[i].order_ID,
                             order_requests |-> s[i].order_requests]] :
               s \in [1..n -> RequestRows]} : n \in 1..MaxMemberRows}

InitFeatures ==
    /\ df_members \in RequestTables
    /\ df_orders = <<>>
    /\ df_products \in PricedProductsTables
    /\ today = Today
    /\ pc = "ready"
    /\ call = NoCall
    /\ ret = [kind |-> "nocall"]
    /\ plot_args = [fn |-> "none"]
    /\ processed = {}
    /\ figures = {}

NextFeatures == \E row_order \in RowOrders : OrderRequestValue(row_order)

SpecFeatures == InitFeatures /\ [][NextFeatures]_vars

----------------------------------------------------------------------------
(* dataframes.make_df_products                                              *)
(* A cell is a str holding a text, a float holding a value in tenths, or   *)
(* the float NaN.                                                           *)

Str(t) == [type |-> "str", text |-> t]

Float(n) == [type |-> "float", na |-> FALSE, tenths |-> n]

NaN == [type |-> "float", na |-> TRUE]

float_cols ==
    <<"tax_rate", "net_price", "bundle_size", "supplier_code", "amount_ordered",
      "bundles_ordered">>

(* the columns named in the astype mapping *)
astype_cols == {"tax_rate", "net_price", "bundle_size", "amount_ordered", "bundles_ordered"}

AllListedCols == Range(float_cols)

(* replace(',', '.', regex=True) then replace('', np.nan, regex=True) on   *)
(* one cell; the empty pattern is matched as a value, not as a regex       *)
replace(cell) ==
    IF cell.type # "str" THEN cell
    ELSE IF ReplaceComma(cell.text) = <<>> THEN NaN
    ELSE Str(ReplaceComma(cell.text))

(* astype('float') on one cell *)
astype(cell) == IF cell.type = "str" THEN Float(TenthsOf(cell.text)) ELSE cell

(* the dtype of a column from its cells *)
DtypeOf(cells) == IF \A c \in cells : c.type = "float" THEN "float64" ELSE "object"

(* the products dicts of all orders, one row each, in the order of          *)
(* df_orders.index and of each dict                                         *)
RECURSIVE ConcatProducts(_)
ConcatProducts(orders) ==
    IF orders = <<>> THEN <<>>
    ELSE [j \in DOMAIN orders[1].products |->
             [c \in {"order_ID"} \cup DOMAIN orders[1].products[j] |->
                 IF c = "order_ID" THEN orders[1].order_ID
                 ELSE orders[1].products[j][c]]]
         \o ConcatProducts(Tail(orders))

make_df_products(orders) ==
    LET raw == ConcatProducts(orders)
        replaced == [i \in DOMAIN raw |->
                        [c \in DOMAIN raw[i] |->
                            IF c \in Range(float_cols) THEN replace(raw[i][c])
                            ELSE raw[i][c]]]
        rows == [i \in DOMAIN raw |->
                    [c \in DOMAIN raw[i] |->
                        IF c \in astype_cols THEN astype(replaced[i][c])
                        ELSE replaced[i][c]]]
    IN [kind |-> "df_products",
        dtypes |-> [c \in Range(float_cols) |-> DtypeOf({rows[i][c] : i \in DOMAIN rows})],
        rows |-> rows]

MakeDfProducts ==
    /\ pc = "ready"
    /\ pc' = "done"
    /\ call' = [fn |-> "dataframes.make_df_products", freq |-> "", export_csv |-> FALSE,
                export_plot |-> FALSE]
    /\ ret' = make_df_products(df_orders)
    /\ UNCHANGED <<df_orders, df_members, df_products, today, plot_args, processed,
                   figures>>

(* Inputs: one order with one product whose six fields are each one of the *)
(* sample texts of the dump                                                 *)
TextSamples == {<<"1", ",", "5">>, <<"2">>, <<>>}

RawProducts ==
    {[c \in {"product_ID"} \cup Range(float_cols) |->
         IF c = "product_ID" THEN 1 ELSE Str(f[c])] :
        f \in [Range(float_cols) -> TextSamples]}

RawOrdersTables == {<<[order_ID |-> 1, products |-> <<p>>]>> : p \in RawProducts}

InitProducts ==
    /\ df_orders \in RawOrdersTables
    /\ df_members = <<>>
    /\ df_products = <<>>
    /\ today = Today
    /\ pc = "ready"
    /\ call = NoCall
    /\ ret = [kind |-> "nocall"]
    /\ plot_args = [fn |-> "none"]
    /\ processed = {}
    /\ figures = {}

NextProducts == MakeDfProducts

SpecProducts == InitProducts /\ [][NextProducts]_vars

----------------------------------------------------------------------------
(* Members tables whose deliveries fall early and late in a period: 2 Jan, *)
(* 1 Mar and 3 Mar 2018 (the last two share a week and a month)            *)

MaxPeriodRows == 3

PeriodDates == {1, 59, 61}

PeriodRows == {Row(m, d, v) : m \in MemberIDs, d \in PeriodDates, v \in Values}

RECURSIVE PeriodTablesOfLen(_)
PeriodTablesOfLen(n) ==
    IF n = 0 THEN {<<>>}
    ELSE UNION {{Append(s, r) : r \in {x \in PeriodRows : s = <<>> \/ RowLess(s[Len(s)], x)}} :
                  s \in PeriodTablesOfLen(n - 1)}

PeriodTables == UNION {PeriodTablesOfLen(n) : n \in 0..MaxPeriodRows}

InitPeriods ==
    /\ df_members \in PeriodTables
    /\ df_orders = <<>>
    /\ df_products = <<>>
    /\ today = Today
    /\ pc = "ready"
    /\ call = NoCall
    /\ ret = [kind |-> "nocall"]
    /\ plot_args = [fn |-> "none"]
    /\ processed = {}
    /\ figures = {}

NextPeriods == \E freq \in {"W", "M"} : MakeTable(freq)

SpecPeriods == InitPeriods /\ [][NextPeriods]_vars

----------------------------------------------------------------------------
(* RFM tables for the recency score: two members whose frequencies and     *)
(* monetary values differ (so that the quartile binning succeeds), with    *)
(* recencies at, next to and between the edges of both frequencies         *)

RecencyEdgeSamples == {0, 3, 4, 6, 7, 12, 13, 14, 26, 27, 52, 53}

RecencyTables ==
    {<<[member_ID |-> 1, recency |-> a, frequency |-> 1, monetary_value |-> Rat(1, 1)],
       [member_ID |-> 2, recency |-> b, frequency |-> 2, monetary_value |-> Rat(3, 2)]>> :
        a \in RecencyEdgeSamples, b \in RecencyEdgeSamples}

NextRecencyScore == \E t \in RecencyTables, freq \in {"W", "M"} : AddScore(t, freq)

SpecRecencyScore == InitScore /\ [][NextRecencyScore]_vars

----------------------------------------------------------------------------
(* Properties of the cohort analysis                                        *)

MembersOf(df) == {df[i].member_ID : i \in DOMAIN df}

OtherMembers(df) == MembersOf(df) \ {46}

(* the periods in which member m has a delivery *)
PeriodsOf(df, m, freq) ==
    {ToPeriod(df[i].delivery_date, freq) : i \in {j \in DOMAIN df : df[j].member_ID = m}}

EarliestPeriod(df, m, freq) == MinOf(PeriodsOf(df, m, freq))

(* the members of cohort c that are active k periods later *)
ActiveOfCohort(df, among, c, k, freq) ==
    {m \in among : EarliestPeriod(df, m, freq) = c /\ (c + k) \in PeriodsOf(df, m, freq)}

CohortReturned ==
    /\ pc = "done"
    /\ call.fn \in {"cohort.main", "cohort.make_retention_matrix"}
    /\ ret.kind = "tuple"

(* the members the returned matrices are about *)
Analysed ==
    IF call.fn = "cohort.main" THEN OtherMembers(df_members) ELSE MembersOf(df_members)

RfmMainReturned == pc = "done" /\ call.fn = "rfm.main" /\ ret.kind = "rfm_table"

(* C1: with rows of member 46 and of other members in the table, the       *)
(* matrices returned by cohort.main count only the other members (each     *)
(* cell is the number of other members of that cohort active at that       *)
(* offset, absent when there is none) and the table returned by rfm.main   *)
(* has no row keyed by 46.                                                  *)
C1_CompanyAccountExcluded ==
    /\ (CohortReturned /\ call.fn = "cohort.main") =>
          \A c \in ret.cohort_pivot.index, k \in ret.cohort_pivot.columns :
             LET active == ActiveOfCohort(df_members, OtherMembers(df_members), c, k,
                                          call.freq)
                 cell == ret.cohort_pivot.cell[c, k]
             IN /\ cell.na = (active = {})
                /\ ~cell.na => cell.n = Cardinality(active)
                /\ ret.retention_matrix.cell[c, k].na = cell.na
    /\ RfmMainReturned =>
          /\ \A i \in DOMAIN ret.rfm_table : ret.rfm_table[i].member_ID # 46
          /\ {ret.rfm_table[i].member_ID : i \in DOMAIN ret.rfm_table}
                = OtherMembers(df_members)

C1_Witness ==
    /\ RfmMainReturned
    /\ 46 \in MembersOf(df_members)
    /\ Cardinality(OtherMembers(df_members)) = 2

C1_WitnessCohort ==
    /\ CohortReturned /\ call.fn = "cohort.main"
    /\ 46 \in MembersOf(df_members)
    /\ Cardinality(OtherMembers(df_members)) = 2
    /\ Cardinality(ret.cohort_pivot.columns) >= 2

(* C2: every cohort row of a returned retention matrix holds exactly 1 at  *)
(* period_number 0 (freq M or Q).                                          *)
C2_RetentionAtZeroIsOne ==
    CohortReturned =>
        /\ 0 \in ret.retention_matrix.columns
        /\ \A c \in ret.retention_matrix.index :
              LET cell == ret.retention_matrix.cell[c, 0]
              IN ~cell.na /\ cell.den > 0 /\ cell.num = cell.den

C2_Witness ==
    /\ CohortReturned
    /\ Cardinality(ret.retention_matrix.index) >= 2
    /\ \E c \in ret.retention_matrix.index, k \in ret.retention_matrix.columns :
          k > 0 /\ ~ret.retention_matrix.cell[c, k].na
                /\ ret.retention_matrix.cell[c, k].num < ret.retention_matrix.cell[c, k].den

(* C3: every cell of a returned retention matrix is absent or a fraction   *)
(* in [0, 1]: the members of a cohort active at an offset never outnumber  *)
(* the cohort's count at offset 0.                                          *)
C3_RetentionInUnitInterval ==
    CohortReturned =>
        \A c \in ret.retention_matrix.index, k \in ret.retention_matrix.columns :
            LET cell == ret.retention_matrix.cell[c, k]
            IN \/ cell.na
               \/ /\ cell.den > 0 /\ 0 <= cell.num /\ cell.num <= cell.den
                  /\ cell.num = ret.cohort_pivot.cell[c, k].n
                  /\ cell.den = ret.cohort_pivot.cell[c, 0].n

(* a member of the cohort with two rows in one later period, and a cell    *)
(* strictly between 0 and 1                                                 *)
C3_Witness ==
    /\ CohortReturned
    /\ \E i, j \in DOMAIN df_members :
          /\ i < j /\ df_members[i].member_ID = df_members[j].member_ID
          /\ df_members[i].member_ID # 46
          /\ ToPeriod(df_members[i].delivery_date, call.freq)
                = ToPeriod(df_members[j].delivery_date, call.freq)
          /\ ToPeriod(df_members[i].delivery_date, call.freq)
                > EarliestPeriod(df_members, df_members[i].member_ID, call.freq)
    /\ \E c \in ret.retention_matrix.index, k \in ret.retention_matrix.columns :
          /\ k > 0
          /\ ~ret.retention_matrix.cell[c, k].na
          /\ ret.retention_matrix.cell[c, k].num < ret.retention_matrix.cell[c, k].den

(* C4: column 0 of the cohort pivot holds, in each cohort row, the number  *)
(* of distinct member_IDs whose earliest delivery lies in that cohort.     *)
C4_ColumnZeroIsCohortSize ==
    CohortReturned =>
        /\ ret.cohort_pivot.index = {EarliestPeriod(df_members, m, call.freq) : m \in Analysed}
        /\ \A c \in ret.cohort_pivot.index :
              /\ ~ret.cohort_pivot.cell[c, 0].na
              /\ ret.cohort_pivot.cell[c, 0].n =
                   Cardinality({m \in Analysed : EarliestPeriod(df_members, m, call.freq) = c})

(* a cohort of two members, one of them active again in a later period *)
C4_Witness ==
    /\ CohortReturned
    /\ \E c \in ret.cohort_pivot.index :
          /\ ret.cohort_pivot.cell[c, 0].n = 2
          /\ \E k \in ret.cohort_pivot.columns :
                k > 0 /\ ~ret.cohort_pivot.cell[c, k].na

----------------------------------------------------------------------------
(* Properties of the RFM analysis                                           *)

ScoreDigits == {"1", "2", "3", "4"}

(* C5: every row of the table returned by rfm.main has frequency >= 1,     *)
(* recency >= 0 and an rfm_score of exactly three characters, each one of  *)
(* the digits 1, 2, 3, 4.                                                   *)
C5_RfmRowsWellFormed ==
    RfmMainReturned =>
        \A i \in DOMAIN ret.rfm_table :
            LET row == ret.rfm_table[i]
            IN /\ row.frequency >= 1
               /\ row.recency >= 0
               /\ Len(row.rfm_score) = 3
               /\ \A j \in DOMAIN row.rfm_score : row.rfm_score[j] \in ScoreDigits

(* a returned table with a member of recency 0 (the lowest edge) and a    *)
(* member in another recency bin                                            *)
C5_Witness ==
    /\ RfmMainReturned
    /\ \E i, j \in DOMAIN ret.rfm_table :
          /\ ret.rfm_table[i].recency = 0
          /\ ret.rfm_table[i].frequency = 2
          /\ ret.rfm_table[j].recency > 0
          /\ ret.rfm_table[j].rfm_score[1] # "4"

(* C8: a call of cohort.main with freq outside {M, Q}, or of rfm.main with *)
(* freq outside {W, M}, returns None, hands nothing to a plot, writes no   *)
(* file and leaves the members table as it was.                            *)
C8_InvalidFreqRejected ==
    [][(\/ call'.fn = "cohort.main" /\ call'.freq \notin {"M", "Q"}
        \/ call'.fn = "rfm.main" /\ call'.freq \notin {"W", "M"})
       => /\ ret'.kind = "None"
          /\ UNCHANGED <<df_members, plot_args, processed, figures>>]_vars

(* rfm.main was called with freq Q, both exports asked for, on a table    *)
(* that rfm.main scores under freq W                                        *)
C8_Witness ==
    /\ pc = "done" /\ call.fn = "rfm.main" /\ call.freq = "Q"
    /\ call.export_csv /\ call.export_plot
    /\ ret.kind = "None" /\ processed = {} /\ figures = {}
    /\ add_score(make_table(df_members, "W"), "W").kind = "ok"

(* C9 as stated: the value returned by rfm.main carries the bin boundaries *)
(* next to the table.                                                       *)
C9_MainReturnsBoundaries == RfmMainReturned => "bin_info" \in DOMAIN ret

(* C9 as amended: add_score returns the boundaries of r, f and m (five     *)
(* edges each) next to the table; rfm.main returns the table alone and     *)
(* hands the boundaries to the plot when export_plot is set.               *)
C9_BoundariesReachPlotOnly ==
    RfmMainReturned =>
        LET s == add_score(make_table(df_members, call.freq), call.freq)
        IN /\ DOMAIN ret = {"kind", "rfm_table"}
           /\ ret.rfm_table = s.rfm_table
           /\ DOMAIN s.bin_info = {"r", "f", "m"}
           /\ \A b \in {"r", "f", "m"} : Len(s.bin_info[b]) = 5
           /\ IF call.export_plot
              THEN plot_args.fn = "rfm.plot" /\ plot_args.bin_info = s.bin_info
              ELSE plot_args.fn = "none"

C9_Witness ==
    /\ RfmMainReturned /\ call.export_plot
    /\ plot_args.bin_info.f # plot_args.bin_info.m

ScoreReturned == pc = "done" /\ call.fn = "rfm.add_score" /\ ret.kind = "ok"

(* the members that add_score labelled with score on column col *)
GroupSize(col, score) ==
    Cardinality({i \in DOMAIN ret.rfm_table :
                    ~ret.rfm_table[i][col].na /\ ret.rfm_table[i][col].v = score})

(* every score group holds n/4 members, rounded down or up *)
Balanced(col) ==
    LET n == Len(ret.rfm_table)
    IN \A score \in 1..4 : GroupSize(col, score) \in {n \div 4, (n + 3) \div 4}

PairwiseDistinct(col) ==
    \A i, j \in DOMAIN ret.rfm_table :
        i # j => IF col = "frequency"
                 THEN ret.rfm_table[i].frequency # ret.rfm_table[j].frequency
                 ELSE ~REq(ret.rfm_table[i].monetary_value, ret.rfm_table[j].monetary_value)

(* C6 as stated: the f and m scores split the n members into four groups   *)
(* of n/4 members each, up to rounding, whatever the values.               *)
C6_QuartilesBalanced == ScoreReturned => Balanced("f_score") /\ Balanced("m_score")

(* C6 as amended: every member gets an f and an m score in 1..4, and the   *)
(* groups of a column hold n/4 members each, up to rounding, when the      *)
(* values of that column are pairwise distinct.                            *)
C6_DistinctValuesBalanced ==
    ScoreReturned =>
        /\ \A i \in DOMAIN ret.rfm_table :
              /\ ~ret.rfm_table[i].f_score.na /\ ret.rfm_table[i].f_score.v \in 1..4
              /\ ~ret.rfm_table[i].m_score.na /\ ret.rfm_table[i].m_score.v \in 1..4
        /\ PairwiseDistinct("frequency") => Balanced("f_score")
        /\ PairwiseDistinct("monetary_value") => Balanced("m_score")

C6_Witness ==
    /\ ScoreReturned
    /\ Len(ret.rfm_table) = 3
    /\ PairwiseDistinct("frequency") /\ PairwiseDistinct("monetary_value")
    /\ \E i \in DOMAIN ret.rfm_table : ret.rfm_table[i].monetary_value = Rat(7, 1)

(* four members, two of them sharing a frequency, scored without error *)
C6_WitnessTies ==
    /\ ScoreReturned
    /\ Len(ret.rfm_table) = 4
    /\ ~PairwiseDistinct("frequency") /\ PairwiseDistinct("monetary_value")

RowOf(m) == ret.rfm_table[CHOOSE i \in DOMAIN ret.rfm_table : ret.rfm_table[i].member_ID = m]

WeeksOf(m) == {d \div 7 : d \in {df_members[i].delivery_date :
                                    i \in {j \in DOMAIN df_members :
                                              df_members[j].member_ID = m}}}

(* members 1 and 2 only; member 1 active in two consecutive weeks, member  *)
(* 2 in the first of them only                                              *)
IsScenario ==
    /\ MembersOf(df_members) = {1, 2}
    /\ \E w \in 0..(MaxBaseWeek + 1) : WeeksOf(1) = {w, w + 1} /\ WeeksOf(2) = {w}

(* C7: in the two-week scenario the weekly RFM table gives member 1        *)
(* frequency 2, member 2 frequency 1, and member 2 a recency strictly      *)
(* greater than member 1's, whatever the two delivery weekdays.            *)
C7_TwoWeekScenario ==
    (pc = "done" /\ ret.kind = "rfm_table" /\ call.freq = "W" /\ IsScenario) =>
        /\ {ret.rfm_table[i].member_ID : i \in DOMAIN ret.rfm_table} = {1, 2}
        /\ RowOf(1).frequency = 2
        /\ RowOf(2).frequency = 1
        /\ RowOf(2).recency > RowOf(1).recency

(* the second delivery falls on an earlier weekday than the first *)
C7_Witness ==
    /\ pc = "done" /\ ret.kind = "rfm_table" /\ call.fn = "rfm.make_table" /\ IsScenario
    /\ \E i, j \in DOMAIN df_members :
          /\ df_members[i].delivery_date < df_members[j].delivery_date
          /\ df_members[j].delivery_date % 7 < df_members[i].delivery_date % 7

----------------------------------------------------------------------------
(* Properties of the CSV helpers                                            *)

DateTyped(df, cols) == \A c \in cols : df.dtypes[c] = "datetime64"

SameDates(df, original, cols) ==
    \A i \in DOMAIN original : \A c \in cols : df.rows[i][c] = original[i][c]

Reloaded(df, original, cols) ==
    /\ ~IsNone(df)
    /\ Len(df.rows) = Len(original)
    /\ DateTyped(df, cols)
    /\ SameDates(df, original, cols)

(* C10: when the directory holds exactly the files export_as_csv wrote for *)
(* some of the three tables, load_data returns each exported table with    *)
(* its row count and with delivery_date / created_at / updated_at as       *)
(* dates, and None for each table that was not exported.                   *)
C10_CsvRoundTrip ==
    pc = "loaded" =>
        \A sel \in SUBSET Kinds :
            processed = export_as_csv(FramesOf(sel, df_orders, df_members, df_products),
                                      {}, today)
            => /\ ret.kind = "loaded"
               /\ IF "orders" \in sel
                  THEN Reloaded(ret.df_orders, df_orders,
                                {"delivery_date", "created_at", "updated_at"})
                  ELSE IsNone(ret.df_orders)
               /\ IF "members" \in sel
                  THEN Reloaded(ret.df_members, df_members, {"delivery_date"})
                  ELSE IsNone(ret.df_members)
               /\ IF "products" \in sel
                  THEN ~IsNone(ret.df_products)
                       /\ Len(ret.df_products.rows) = Len(df_products)
                  ELSE IsNone(ret.df_products)

C10_Witness ==
    /\ pc = "loaded"
    /\ processed = export_as_csv(FramesOf(Kinds, df_orders, df_members, df_products),
                                 {}, today)
    /\ ret.kind = "loaded"
    /\ Len(ret.df_orders.rows) = 2
    /\ ret.df_orders.rows[1].delivery_date # ret.df_orders.rows[2].delivery_date

(* only two of the tables were exported *)
C10_WitnessPartial ==
    /\ pc = "loaded"
    /\ processed = export_as_csv(FramesOf({"orders", "products"}, df_orders, df_members,
                                           df_products), {}, today)
    /\ ret.kind = "loaded" /\ IsNone(ret.df_members)

----------------------------------------------------------------------------
(* Properties of the derived features                                       *)

ValuesReturned == pc = "done" /\ call.fn = "features.order_request_value"

(* the net_price of product p within order o, looked up by its labels *)
OwnPrice(o, p) ==
    df_products[CHOOSE j \in DOMAIN df_products :
                    df_products[j].order_ID = o /\ df_products[j].product_ID = p].net_price

(* the filled amount of one entry, in tenths: decimal comma, blank is 0 *)
AmountOf(entry) ==
    IF entry.filled = <<>> THEN 0
    ELSE IF entry.filled = <<"0", ",", "5">> THEN 5
    ELSE IF entry.filled = <<"1", ",", "5">> THEN 15
    ELSE 10

(* the sum over the entries of own price times filled amount, in cents *)
ValueOf(row) ==
    RoundHalfEven(
        SumOver(DOMAIN row.order_requests,
                [i \in DOMAIN row.order_requests |->
                    OwnPrice(row.order_ID, row.order_requests[i].product_ID)
                        * AmountOf(row.order_requests[i])]), 10)

(* C11: every member row's order_request_value is the sum over the entries *)
(* of its order_requests mapping of the net_price of the entry's own       *)
(* product within the same order times the entry's filled amount (blank    *)
(* as 0), rounded to 2 decimals, whatever the order of the entries, and it  *)
(* is not negative.                                                         *)
C11_ValueIsSumOfOwnPrices ==
    ValuesReturned =>
        \A i \in DOMAIN ret.df_members :
            /\ ret.df_members[i].order_request_value = ValueOf(ret.df_members[i])
            /\ ret.df_members[i].order_request_value >= 0

(* a mapping that lists product 2 before product 1 while the products      *)
(* table lists 1 before 2, the lookup returning the rows in table order:   *)
(* the amounts meet the prices of the other product                         *)
C11_Witness ==
    /\ ValuesReturned
    /\ call.row_order = "table"
    /\ df_products[1].product_ID = 1
    /\ \E i \in DOMAIN ret.df_members :
          /\ product_ID(ret.df_members[i].order_requests) = <<2, 1>>
          /\ ret.df_members[i].order_request_value # ValueOf(ret.df_members[i])

ProductsReturned == pc = "done" /\ call.fn = "dataframes.make_df_products"

(* the text of field c of the one product of the dump *)
RawText(c) == df_orders[1].products[1][c].text

(* the value of a decimal-comma text, in tenths *)
DecimalComma(t) == IF t = <<"2">> THEN 20 ELSE 15

(* C12: in the table built by make_df_products each of tax_rate,           *)
(* net_price, bundle_size, supplier_code, amount_ordered and               *)
(* bundles_ordered is a floating point column: an empty string has become  *)
(* missing and any other text the float of its decimal-comma value.        *)
C12_SixFieldsAreFloats ==
    ProductsReturned =>
        \A c \in AllListedCols :
            /\ ret.dtypes[c] = "float64"
            /\ ret.rows[1][c].type = "float"
            /\ IF RawText(c) = <<>> THEN ret.rows[1][c].na
               ELSE ~ret.rows[1][c].na /\ ret.rows[1][c].tenths = DecimalComma(RawText(c))

(* a supplier_code of "1,5" comes out as the text "1.5" in an object       *)
(* column, while the five other fields of the row are floats               *)
C12_Witness ==
    /\ ProductsReturned
    /\ RawText("supplier_code") = <<"1", ",", "5">>
    /\ ret.rows[1]["supplier_code"] = Str(<<"1", ".", "5">>)
    /\ ret.dtypes["supplier_code"] = "object"
    /\ \A c \in astype_cols :
          /\ RawText(c) # <<>>
          /\ ret.rows[1][c] = Float(DecimalComma(RawText(c)))

----------------------------------------------------------------------------
(* Properties of the RFM table                                              *)

TableMade == pc = "done" /\ call.fn = "rfm.make_table"

TableRows == {ret.rfm_table[i] : i \in DOMAIN ret.rfm_table}

(* the last period in which member m is active, and the last active        *)
(* period of all members other than 46                                      *)
LastPeriod(m) == MaxOf(PeriodsOf(df_members, m, call.freq))

GlobalLastPeriod == MaxOf({LastPeriod(m) : m \in OtherMembers(df_members)})

(* the last day of period p *)
LastDay(p, freq) ==
    IF freq = "W" THEN DaysPerWeek * p + 6
    ELSE IF p + 1 = Len(MonthStarts) THEN 364
    ELSE MonthStarts[p + 2] - 1

(* C13: every member's recency is the floor of (the end of the globally    *)
(* most recent active period minus the start of the member's most recent   *)
(* active period) over the period length; a member active in the globally  *)
(* most recent period has recency 0, and recency does not increase with    *)
(* the member's last active period.                                         *)
C13_RecencyFromPeriodEnd ==
    TableMade =>
        \A r \in TableRows :
            /\ r.recency =
                   FloorDivTimedelta(
                       LastDay(GlobalLastPeriod, call.freq)
                           - ToTimestamp(LastPeriod(r.member_ID), call.freq),
                       call.freq)
            /\ LastPeriod(r.member_ID) = GlobalLastPeriod => r.recency = 0
            /\ \A q \in TableRows :
                  LastPeriod(q.member_ID) >= LastPeriod(r.member_ID) => q.recency <= r.recency

(* monthly periods, the last delivery of all on 1 March, a member last     *)
(* active in January: two months back, recency 1                           *)
C13_Witness ==
    /\ TableMade
    /\ call.freq = "M"
    /\ OtherMembers(df_members) = MembersOf(df_members)
    /\ df_members # <<>>
    /\ MaxOf({df_members[i].delivery_date : i \in DOMAIN df_members}) = 59
    /\ \E r \in TableRows :
          /\ LastPeriod(r.member_ID) = 0
          /\ GlobalLastPeriod = 2
          /\ r.recency = 1

PeriodsPerYear == IF call.freq = "W" THEN 52 ELSE 12

(* the score of a recency against the edges at a quarter, a half and the   *)
(* whole of the periods per year, an edge belonging to the bin below it    *)
ScoreOfRecency(r) ==
    IF 4 * r <= PeriodsPerYear THEN 4
    ELSE IF 2 * r <= PeriodsPerYear THEN 3
    ELSE IF r <= PeriodsPerYear THEN 2
    ELSE 1

(* C14: with the edges at 0, 0.25, 0.5, 1 and infinity times the periods   *)
(* per year (52 for W, 12 for M) every recency >= 0 gets exactly one       *)
(* r_score of 4, 3, 2, 1: recency 0 gets 4, a recency on an inner edge     *)
(* gets the score of the more recent bin, and r_score does not increase    *)
(* as recency grows.                                                        *)
C14_RecencyScoreBins ==
    ScoreReturned =>
        \A i \in DOMAIN ret.rfm_table :
            /\ ~ret.rfm_table[i].r_score.na
            /\ ret.rfm_table[i].r_score.v = ScoreOfRecency(ret.rfm_table[i].recency)
            /\ ret.rfm_table[i].recency = 0 => ret.rfm_table[i].r_score.v = 4
            /\ \A j \in DOMAIN ret.rfm_table :
                  ret.rfm_table[i].recency <= ret.rfm_table[j].recency =>
                      ret.rfm_table[i].r_score.v >= ret.rfm_table[j].r_score.v
            /\ ret.bin_info.r = <<Rat(0, 1), Rat(PeriodsPerYear, 4), Rat(PeriodsPerYear, 2),
                                  Rat(PeriodsPerYear, 1), Inf>>

(* weekly: one member exactly on the inner edge 13, scored 4, the other    *)
(* just past it, scored 3                                                   *)
C14_Witness ==
    /\ ScoreReturned
    /\ call.freq = "W"
    /\ \E i, j \in DOMAIN ret.rfm_table :
          /\ ret.rfm_table[i].recency = 13 /\ ret.rfm_table[i].r_score.v = 4
          /\ ret.rfm_table[j].recency = 14 /\ ret.rfm_table[j].r_score.v = 3

(* monthly: recency 0 scored 4 next to a recency past a year scored 1 *)
C14_WitnessMonthly ==
    /\ ScoreReturned
    /\ call.freq = "M"
    /\ \E i, j \in DOMAIN ret.rfm_table :
          /\ ret.rfm_table[i].recency = 0 /\ ret.rfm_table[i].r_score.v = 4
          /\ ret.rfm_table[j].recency = 13 /\ ret.rfm_table[j].r_score.v = 1

(* the rows of member m in the members table *)
RowsOfMember(m) == {i \in DOMAIN df_members : df_members[i].member_ID = m}

(* the sum of order_request_value over all rows of member m: the sum over  *)
(* its periods of the per-period sums                                       *)
TotalValue(m) ==
    SumOver(RowsOfMember(m), [i \in DOMAIN df_members |-> df_members[i].order_request_value])

(* C15: the RFM table has exactly one row per distinct member_ID other     *)
(* than 46; its frequency is the number of distinct periods in which the   *)
(* member has a row (several rows in one period count once) and its        *)
(* monetary_value is the mean over those periods of the per-period summed  *)
(* order_request_value.                                                     *)
C15_OneRowPerMember ==
    TableMade =>
        /\ {r.member_ID : r \in TableRows} = OtherMembers(df_members)
        /\ Len(ret.rfm_table) = Cardinality(OtherMembers(df_members))
        /\ \A r \in TableRows :
              /\ r.frequency = Cardinality(PeriodsOf(df_members, r.member_ID, call.freq))
              /\ REq(r.monetary_value,
                     Rat(TotalValue(r.member_ID),
                         Cardinality(PeriodsOf(df_members, r.member_ID, call.freq))))

(* a member with deliveries on two days of one period and on a day of      *)
(* another period: three rows, frequency 2, a mean that is not whole       *)
C15_Witness ==
    /\ TableMade
    /\ \E r \in TableRows :
          /\ {df_members[i].delivery_date : i \in RowsOfMember(r.member_ID)} = PeriodDates
          /\ r.frequency = 2
          /\ r.monetary_value.den = 2
          /\ r.monetary_value.num % 2 = 1

----------------------------------------------------------------------------
(* Cohorts as a partition of the members                                    *)

(* the table make_retention_matrix worked on *)
AnalysedTable ==
    IF call.fn = "cohort.main" THEN RemoveCompanyAccount(df_members) ELSE df_members

(* the cohorts given to the rows of member m *)
CohortsOf(m) ==
    {Cohort(AnalysedTable, i, call.freq) :
        i \in {j \in DOMAIN AnalysedTable : AnalysedTable[j].member_ID = m}}

(* C16: every member_ID of the (filtered) members table is assigned        *)
(* exactly one cohort, every period_number of the cohort pivot is an       *)
(* integer >= 0, and column 0 of the cohort pivot summed over the cohorts  *)
(* is the number of distinct member_IDs of the table (the n that the plot  *)
(* annotates).                                                              *)
C16_CohortsPartitionMembers ==
    CohortReturned =>
        /\ \A m \in Analysed :
              /\ Cardinality(CohortsOf(m)) = 1
              /\ CohortsOf(m) \subseteq ret.cohort_pivot.index
        /\ \A k \in ret.cohort_pivot.columns : k \in Nat
        /\ \A c \in ret.cohort_pivot.index : ~ret.cohort_pivot.cell[c, 0].na
        /\ SumOver(ret.cohort_pivot.index,
                   [c \in ret.cohort_pivot.index |-> ret.cohort_pivot.cell[c, 0].n])
               = Cardinality(Analysed)
        /\ (call.fn = "cohort.main" /\ call.export_plot) =>
               plot_args.n = Cardinality(Analysed)

(* two members of different cohorts, one of them active again in a later   *)
(* period, next to rows of member 46; the plot is made                     *)
C16_Witness ==
    /\ CohortReturned
    /\ call.fn = "cohort.main" /\ call.export_plot
    /\ CompanyAccount \in MembersOf(df_members)
    /\ Cardinality(Analysed) = 2
    /\ Cardinality(ret.cohort_pivot.index) = 2
    /\ \E m \in Analysed : Cardinality(PeriodsOf(df_members, m, call.freq)) = 2
    /\ plot_args.n = 2

====
